---- MODULE Spec2Model ----
(***************************************************************************)
(* rs-ync: reconciliation of a destination directory with a source         *)
(* directory over the FileSystem trait (src/src/lib.rs).  The storage is   *)
(* the in-memory FakeFileSystem: a map from paths to contents and a log    *)
(* of operations.                                                          *)
(*                                                                         *)
(* A path is a sequence of components (Path::starts_with, file_name,       *)
(* parent and join all work on components).  A content is a string.        *)
(* A fingerprint (Blob.id, "basename-hash-size") is the triple             *)
(* <<basename, hash, size>>: the hash has a fixed width (64 hex digits)    *)
(* and none of the basenames used here is a prefix of another, so the      *)
(* byte order of the formatted strings is the lexicographic order of the   *)
(* triples, which KeyLess computes.                                        *)
(***************************************************************************)
EXTENDS Integers, Sequences, FiniteSets, TLC

VARIABLES
    files,        \* FakeFileSystem.files : path -> content
    operations,   \* FakeFileSystem.operations : log lines
    src_dir,      \* Args.src_dir
    dst_dir,      \* Args.dst_dir
    pc,           \* position in execute_rsync / execute_file_movement_plan
    paths,        \* get_struct_map: the Vec<PathBuf> collected from list_files
    src_map,      \* execute_rsync: src_map
    dst_map,      \* execute_rsync: dst_map
    file_plan,    \* the Vec<FileOp> handed to execute_file_movement_plan
    pos,          \* index of the next op of file_plan (the for loop)
    panic_msg,    \* message of the expect() that panicked, "" if none
    run,          \* number of the reconciliation run in progress
    files0,       \* files when execute_file_movement_plan was entered
    ops0,         \* Len(operations) when execute_file_movement_plan was entered
    calls         \* every call made on the storage so far, with its result

vars == <<files, operations, src_dir, dst_dir, pc, paths, src_map, dst_map,
          file_plan, pos, panic_msg, run, files0, ops0, calls>>

---------------------------------------------------------------------------
(* Bounds *)

MaxFiles == 3
MaxRuns == 2
MaxPlanLen == 3
MaxCalls == 3

\* basenames (tests/common/mod.rs), in ascending byte order
AllNames == <<"file_1.txt", "file_2.txt">>
Names == {AllNames[i] : i \in 1..Len(AllNames)}
NameRank(n) == CHOOSE i \in 1..Len(AllNames) : AllNames[i] = n

Contents == {"hey", "hello", "world"}

Roots == {<<"dir">>, <<"other_dir">>, <<"dir", "sub">>}
InitPaths == {r \o <<n>> : r \in Roots, n \in Names}

\* the paths the plans and calls that are not built by the planner range over
ApiPaths == {<<"dir", AllNames[1]>>, <<"other_dir", AllNames[1]>>}

EmptyMap == <<>>

---------------------------------------------------------------------------
(* Paths *)

\* Path::starts_with: base is a component-wise prefix of p
starts_with(p, base) ==
    /\ Len(base) <= Len(p)
    /\ SubSeq(p, 1, Len(base)) = base

\* PathBuf::join with a relative one-component name
join(dir, name) == dir \o <<name>>

---------------------------------------------------------------------------
(* FakeFileSystem *)

Remove(f, p) == [q \in DOMAIN f \ {p} |-> f[q]]
Insert(f, p, c) == [q \in DOMAIN f \cup {p} |-> IF q = p THEN c ELSE f[q]]

\* first byte of the SHA-256 digest of the content (sha256sum)
Sha256 == [c \in {"hey", "hello", "world"} |->
             CASE c = "hey" -> 250
               [] c = "hello" -> 44
               [] c = "world" -> 72]

\* hash_file: Err(NotFound) when the path is not in the map
hash_file(f, p) ==
    IF p \in DOMAIN f THEN [ok |-> TRUE, val |-> Sha256[f[p]]]
    ELSE [ok |-> FALSE, val |-> 0]

\* size: content.len(), Err(NotFound) when the path is not in the map
size(f, p) ==
    IF p \in DOMAIN f THEN [ok |-> TRUE, val |-> Len(f[p])]
    ELSE [ok |-> FALSE, val |-> 0]

\* the set of orders in which HashMap::keys() may enumerate S
Orders(S) ==
    {s \in [1..Cardinality(S) -> S] : \A i, j \in DOMAIN s : s[i] = s[j] => i = j}

\* list_files: logs the call, yields the keys under the root in any order
ListLine(root) == [op |-> "list", path |-> root]
Listed(f, root) == {p \in DOMAIN f : starts_with(p, root)}


\* list_files that takes the listed entries out of the map
list_files_draining(fs, root) ==
    [files |-> [q \in DOMAIN fs.files \ Listed(fs.files, root) |-> fs.files[q]],
     operations |-> Append(fs.operations, ListLine(root))]

\* list_files: the storage after the call (the log line is pushed, the map
\* is only read)
list_files(fs, root) ==
    [files |-> fs.files,
     operations |-> Append(fs.operations, ListLine(root))]

CopyLine(from, to) == [op |-> "copy", from |-> from, to |-> to]
MoveLine(from, to) == [op |-> "move", from |-> from, to |-> to]
DeleteLine(path) == [op |-> "delete", path |-> path]

\* copy_file that removes the destination before it looks for the source
copy_file_clobbering(fs, from, to) ==
    IF from \in DOMAIN fs.files
    THEN [files |-> Insert(fs.files, to, fs.files[from]),
          operations |-> Append(fs.operations, CopyLine(from, to)),
          result |-> "Ok"]
    ELSE [files |-> Remove(fs.files, to), operations |-> fs.operations,
          result |-> "NotFound"]

copy_file(fs, from, to) ==
    IF from \in DOMAIN fs.files
    THEN [files |-> Insert(fs.files, to, fs.files[from]),
          operations |-> Append(fs.operations, CopyLine(from, to)),
          result |-> "Ok"]
    ELSE [files |-> fs.files, operations |-> fs.operations, result |-> "NotFound"]

\* move_file that pushes its log line before it looks for the source
move_file_logged_early(fs, from, to) ==
    IF from \in DOMAIN fs.files
    THEN [files |-> Insert(Remove(fs.files, from), to, fs.files[from]),
          operations |-> Append(fs.operations, MoveLine(from, to)),
          result |-> "Ok"]
    ELSE [files |-> fs.files,
          operations |-> Append(fs.operations, MoveLine(from, to)),
          result |-> "NotFound"]

move_file(fs, from, to) ==
    IF from \in DOMAIN fs.files
    THEN [files |-> Insert(Remove(fs.files, from), to, fs.files[from]),
          operations |-> Append(fs.operations, MoveLine(from, to)),
          result |-> "Ok"]
    ELSE [files |-> fs.files, operations |-> fs.operations, result |-> "NotFound"]

\* delete_file that does not push its log line
delete_file_unlogged(fs, path) ==
    IF path \in DOMAIN fs.files
    THEN [files |-> Remove(fs.files, path),
          operations |-> fs.operations,
          result |-> "Ok"]
    ELSE [files |-> fs.files, operations |-> fs.operations, result |-> "NotFound"]

\* delete_file that does not look at what remove() returned
delete_file_unchecked(fs, path) ==
    [files |-> Remove(fs.files, path),
     operations |-> Append(fs.operations, DeleteLine(path)),
     result |-> "Ok"]

delete_file(fs, path) ==
    IF path \in DOMAIN fs.files
    THEN [files |-> Remove(fs.files, path),
          operations |-> Append(fs.operations, DeleteLine(path)),
          result |-> "Ok"]
    ELSE [files |-> fs.files, operations |-> fs.operations, result |-> "NotFound"]

---------------------------------------------------------------------------
(* Blob, snapshots *)

\* Blob::new: InvalidData when the path has no file name, the error of
\* hash_file or size otherwise
Blob_new(path, f) ==
    IF Len(path) = 0 THEN [ok |-> FALSE, err |-> "InvalidData"]
    ELSE IF ~hash_file(f, path).ok \/ ~size(f, path).ok
         THEN [ok |-> FALSE, err |-> "NotFound"]
    ELSE LET basename == path[Len(path)]
             hash == hash_file(f, path).val
             sz == size(f, path).val
         IN [ok |-> TRUE,
             blob |-> [path |-> path,
                       basename |-> basename,
                       dir |-> SubSeq(path, 1, Len(path) - 1),
                       hash |-> hash,
                       id |-> <<basename, hash, sz>>,
                       size |-> sz]]

\* paths_to_blobs that drops the paths whose Blob::new fails
RECURSIVE paths_to_blobs_skipping(_, _)
paths_to_blobs_skipping(ps, f) ==
    IF ps = <<>> THEN [ok |-> TRUE, blobs |-> <<>>]
    ELSE LET b == Blob_new(Head(ps), f)
             rest == paths_to_blobs_skipping(Tail(ps), f)
         IN IF ~b.ok THEN rest
            ELSE [ok |-> TRUE, blobs |-> <<b.blob>> \o rest.blobs]

\* paths_to_blobs: collect into Result<Vec<Blob>>, the first Err wins
RECURSIVE paths_to_blobs(_, _)
paths_to_blobs(ps, f) ==
    IF ps = <<>> THEN [ok |-> TRUE, blobs |-> <<>>]
    ELSE LET b == Blob_new(Head(ps), f)
             rest == paths_to_blobs(Tail(ps), f)
         IN IF ~b.ok THEN [ok |-> FALSE, blobs |-> <<>>]
            ELSE IF ~rest.ok THEN [ok |-> FALSE, blobs |-> <<>>]
            ELSE [ok |-> TRUE, blobs |-> <<b.blob>> \o rest.blobs]

\* struct_to_hashmap with key_fn = |s| s.id: a later item replaces an
\* earlier one with the same key
RECURSIVE struct_to_hashmap(_)
struct_to_hashmap(items) ==
    IF items = <<>> THEN EmptyMap
    ELSE LET n == Len(items)
             map == struct_to_hashmap(SubSeq(items, 1, n - 1))
         IN Insert(map, items[n].id, items[n])

---------------------------------------------------------------------------
(* Planner *)

\* String order of two fingerprints
KeyLess(a, b) ==
    \/ NameRank(a[1]) < NameRank(b[1])
    \/ a[1] = b[1] /\ a[2] < b[2]
    \/ a[1] = b[1] /\ a[2] = b[2] /\ a[3] < b[3]

\* the keys in descending order
RECURSIVE sorted_descending(_)
sorted_descending(S) ==
    IF S = {} THEN <<>>
    ELSE LET m == CHOOSE k \in S : \A o \in S \ {k} : KeyLess(o, k)
         IN <<m>> \o sorted_descending(S \ {m})

\* keys().sorted()
RECURSIVE sorted(_)
sorted(S) ==
    IF S = {} THEN <<>>
    ELSE LET m == CHOOSE k \in S : \A o \in S \ {k} : KeyLess(k, o)
         IN <<m>> \o sorted(S \ {m})

CopyFile(src_path, dst_path) ==
    [op |-> "CopyFile", src_path |-> src_path, dst_path |-> dst_path]
DeleteFile(path) == [op |-> "DeleteFile", path |-> path]

\* the first loop with src_path and dst_path of the CopyFile exchanged
RECURSIVE CopyOps_swapped(_, _, _, _)
CopyOps_swapped(keys, dir, smap, dmap) ==
    IF keys = <<>> THEN <<>>
    ELSE LET blob == smap[Head(keys)]
             rest == CopyOps_swapped(Tail(keys), dir, smap, dmap)
         IN IF Head(keys) \in DOMAIN dmap THEN rest
            ELSE <<CopyFile(join(dir, blob.basename), blob.path)>> \o rest

\* first loop of plan_file_movements over the sorted source keys
RECURSIVE CopyOps(_, _, _, _)
CopyOps(keys, dir, smap, dmap) ==
    IF keys = <<>> THEN <<>>
    ELSE LET blob == smap[Head(keys)]
             rest == CopyOps(Tail(keys), dir, smap, dmap)
         IN IF Head(keys) \in DOMAIN dmap THEN rest
            ELSE <<CopyFile(blob.path, join(dir, blob.basename))>> \o rest

\* second loop of plan_file_movements over the sorted destination keys
RECURSIVE DeleteOps(_, _, _)
DeleteOps(keys, smap, dmap) ==
    IF keys = <<>> THEN <<>>
    ELSE LET blob == dmap[Head(keys)]
             rest == DeleteOps(Tail(keys), smap, dmap)
         IN IF Head(keys) \in DOMAIN smap THEN rest
            ELSE <<DeleteFile(blob.path)>> \o rest

\* plan_file_movements whose second loop runs over the source keys
plan_file_movements_swapped(dir, smap, dmap) ==
    CopyOps(sorted(DOMAIN smap), dir, smap, dmap)
        \o DeleteOps(sorted(DOMAIN smap), dmap, smap)

plan_file_movements(dir, smap, dmap) ==
    CopyOps(sorted(DOMAIN smap), dir, smap, dmap)
        \o DeleteOps(sorted(DOMAIN dmap), smap, dmap)

---------------------------------------------------------------------------
(* Executor *)

\* the match of execute_file_movement_plan on one op
apply_op(fs, op) ==
    IF op.op = "CopyFile" THEN copy_file(fs, op.src_path, op.dst_path)
    ELSE delete_file(fs, op.path)

\* the log line of the call the match makes for one op
CallOf(op) ==
    IF op.op = "CopyFile" THEN CopyLine(op.src_path, op.dst_path)
    ELSE DeleteLine(op.path)

Call(line, result) == [call |-> line, result |-> result]

---------------------------------------------------------------------------
(* Initial states *)

FileMaps ==
    UNION {[D -> Contents] : D \in {S \in SUBSET InitPaths : Cardinality(S) <= MaxFiles}}

ApiFileMaps == UNION {[D -> Contents] : D \in SUBSET ApiPaths}

InitCommon ==
    /\ operations = <<>>
    /\ paths = <<>>
    /\ src_map = EmptyMap
    /\ dst_map = EmptyMap
    /\ pos = 1
    /\ panic_msg = ""
    /\ run = 1
    /\ ops0 = 0
    /\ files0 = files
    /\ calls = <<>>

\* execute_rsync on a storage holding any files, with any two roots
Init ==
    /\ files \in FileMaps
    /\ src_dir \in Roots
    /\ dst_dir \in Roots
    /\ pc = "start"
    /\ file_plan = <<>>
    /\ InitCommon

---------------------------------------------------------------------------
(* execute_rsync *)

\* get_struct_map(&args.src_dir): list_files collected into paths
ListSrc ==
    /\ pc = "start"
    /\ LET r == list_files([files |-> files, operations |-> operations], src_dir)
       IN /\ files' = r.files
          /\ operations' = r.operations
    /\ calls' = Append(calls, Call(ListLine(src_dir), "Ok"))
    /\ paths' \in Orders(Listed(files, src_dir))
    /\ pc' = "src_listed"
    /\ UNCHANGED <<src_dir, dst_dir, src_map, dst_map, file_plan, pos,
                   panic_msg, run, files0, ops0>>

\* get_struct_map(&args.dst_dir): list_files collected into paths
ListDst ==
    /\ pc = "src_mapped"
    /\ LET r == list_files([files |-> files, operations |-> operations], dst_dir)
       IN /\ files' = r.files
          /\ operations' = r.operations
    /\ calls' = Append(calls, Call(ListLine(dst_dir), "Ok"))
    /\ paths' \in Orders(Listed(files, dst_dir))
    /\ pc' = "dst_listed"
    /\ UNCHANGED <<src_dir, dst_dir, src_map, dst_map, file_plan, pos,
                   panic_msg, run, files0, ops0>>

\* a listed file is removed from the storage before it is hashed
Vanish ==
    /\ pc \in {"src_listed", "dst_listed"}
    /\ \A i \in DOMAIN paths : paths[i] \in DOMAIN files
    /\ \E i \in DOMAIN paths : files' = Remove(files, paths[i])
    /\ UNCHANGED <<operations, src_dir, dst_dir, pc, paths, src_map, dst_map,
                   file_plan, pos, panic_msg, run, files0, ops0, calls>>

\* get_struct_map(&args.src_dir): paths_to_blobs(..).expect(..), struct_to_hashmap
BuildSrc ==
    /\ pc = "src_listed"
    /\ LET r == paths_to_blobs(paths, files)
       IN IF r.ok
          THEN /\ src_map' = struct_to_hashmap(r.blobs)
               /\ pc' = "src_mapped"
               /\ UNCHANGED panic_msg
          ELSE /\ pc' = "panicked"
               /\ panic_msg' = "Failed to parse blobs"
               /\ UNCHANGED src_map
    /\ UNCHANGED <<files, operations, src_dir, dst_dir, paths, dst_map,
                   file_plan, pos, run, files0, ops0, calls>>

\* get_struct_map(&args.dst_dir): paths_to_blobs(..).expect(..), struct_to_hashmap
BuildDst ==
    /\ pc = "dst_listed"
    /\ LET r == paths_to_blobs(paths, files)
       IN IF r.ok
          THEN /\ dst_map' = struct_to_hashmap(r.blobs)
               /\ pc' = "dst_mapped"
               /\ UNCHANGED panic_msg
          ELSE /\ pc' = "panicked"
               /\ panic_msg' = "Failed to parse blobs"
               /\ UNCHANGED dst_map
    /\ UNCHANGED <<files, operations, src_dir, dst_dir, paths, src_map,
                   file_plan, pos, run, files0, ops0, calls>>

\* plan_file_movements, and the entry of execute_file_movement_plan
Plan ==
    /\ pc = "dst_mapped"
    /\ file_plan' = plan_file_movements(dst_dir, src_map, dst_map)
    /\ pos' = 1
    /\ paths' = <<>>
    /\ files0' = files
    /\ ops0' = Len(operations)
    /\ pc' = "executing"
    /\ UNCHANGED <<files, operations, src_dir, dst_dir, src_map, dst_map,
                   panic_msg, run, calls>>

\* one iteration of the for loop of execute_file_movement_plan: the op is
\* applied, and expect() panics on an Err
ExecOp ==
    /\ pc = "executing"
    /\ pos <= Len(file_plan)
    /\ LET r == apply_op([files |-> files, operations |-> operations], file_plan[pos])
       IN /\ files' = r.files
          /\ operations' = r.operations
          /\ calls' = Append(calls, Call(CallOf(file_plan[pos]), r.result))
          /\ IF r.result = "Ok"
             THEN /\ pos' = pos + 1
                  /\ UNCHANGED <<pc, panic_msg>>
             ELSE /\ pc' = "panicked"
                  /\ panic_msg' = "{op} operation failed"
                  /\ UNCHANGED pos
    /\ UNCHANGED <<src_dir, dst_dir, paths, src_map, dst_map, file_plan, run,
                   files0, ops0>>

\* the end of the for loop: bar.finish(), Ok(())
Finish ==
    /\ pc = "executing"
    /\ pos > Len(file_plan)
    /\ pc' = "done"
    /\ UNCHANGED <<files, operations, src_dir, dst_dir, paths, src_map, dst_map,
                   file_plan, pos, panic_msg, run, files0, ops0, calls>>

\* execute_rsync is called again on the same storage
Rerun ==
    /\ pc = "done"
    /\ run < MaxRuns
    /\ run' = run + 1
    /\ pc' = "start"
    /\ src_map' = EmptyMap
    /\ dst_map' = EmptyMap
    /\ file_plan' = <<>>
    /\ pos' = 1
    /\ UNCHANGED <<files, operations, src_dir, dst_dir, paths, panic_msg,
                   files0, ops0, calls>>

Next ==
    \/ ListSrc
    \/ BuildSrc
    \/ ListDst
    \/ BuildDst
    \/ Vanish
    \/ Plan
    \/ ExecOp
    \/ Finish
    \/ Rerun

Spec == Init /\ [][Next]_vars

---------------------------------------------------------------------------
(* execute_file_movement_plan called with any plan on any storage *)

ApiOps ==
    {CopyFile(p, q) : p \in ApiPaths, q \in ApiPaths}
        \cup {DeleteFile(p) : p \in ApiPaths}

Plans == UNION {[1..n -> ApiOps] : n \in 0..MaxPlanLen}

InitExec ==
    /\ files \in ApiFileMaps
    /\ src_dir = <<"dir">>
    /\ dst_dir = <<"other_dir">>
    /\ pc = "executing"
    /\ file_plan \in Plans
    /\ InitCommon

NextExec ==
    \/ ExecOp
    \/ Finish

SpecExec == InitExec /\ [][NextExec]_vars

---------------------------------------------------------------------------
(* The FileSystem trait called directly on the in-memory storage *)

InitFs ==
    /\ files \in ApiFileMaps
    /\ src_dir = <<"dir">>
    /\ dst_dir = <<"other_dir">>
    /\ pc = "api"
    /\ file_plan = <<>>
    /\ InitCommon

FsFrame == UNCHANGED <<src_dir, dst_dir, pc, src_map, dst_map, file_plan, pos,
                       panic_msg, run, files0, ops0>>

CallList ==
    /\ pc = "api"
    /\ Len(calls) < MaxCalls
    /\ \E root \in {src_dir, dst_dir} :
          LET r == list_files([files |-> files, operations |-> operations], root)
          IN /\ files' = r.files
             /\ operations' = r.operations
             /\ calls' = Append(calls, Call(ListLine(root), "Ok"))
             /\ paths' \in Orders(Listed(files, root))
    /\ FsFrame

CallCopy ==
    /\ pc = "api"
    /\ Len(calls) < MaxCalls
    /\ \E from \in ApiPaths, to \in ApiPaths :
          LET r == copy_file([files |-> files, operations |-> operations], from, to)
          IN /\ files' = r.files
             /\ operations' = r.operations
             /\ calls' = Append(calls, Call(CopyLine(from, to), r.result))
    /\ UNCHANGED paths
    /\ FsFrame

CallMove ==
    /\ pc = "api"
    /\ Len(calls) < MaxCalls
    /\ \E from \in ApiPaths, to \in ApiPaths :
          LET r == move_file([files |-> files, operations |-> operations], from, to)
          IN /\ files' = r.files
             /\ operations' = r.operations
             /\ calls' = Append(calls, Call(MoveLine(from, to), r.result))
    /\ UNCHANGED paths
    /\ FsFrame

CallDelete ==
    /\ pc = "api"
    /\ Len(calls) < MaxCalls
    /\ \E path \in ApiPaths :
          LET r == delete_file([files |-> files, operations |-> operations], path)
          IN /\ files' = r.files
             /\ operations' = r.operations
             /\ calls' = Append(calls, Call(DeleteLine(path), r.result))
    /\ UNCHANGED paths
    /\ FsFrame

NextFs ==
    \/ CallList
    \/ CallCopy
    \/ CallMove
    \/ CallDelete

SpecFs == InitFs /\ [][NextFs]_vars

---------------------------------------------------------------------------
(* Properties of the reconciliation *)

\* the fingerprints a fresh snapshot of root holds
Fingerprints(f, root) == {Blob_new(p, f).blob.id : p \in Listed(f, root)}

\* C1 (completeness): when a run has executed its plan to completion, the
\* fingerprints of a fresh destination snapshot are those of the source
\* snapshot the plan was built from.
C1_Completeness ==
    pc = "done" => Fingerprints(files, dst_dir) = DOMAIN src_map

\* C2 (idempotence): the plan of a run that follows a completed run on the
\* same storage is empty, and the files are as the previous run left them.
C2_Idempotence ==
    (pc = "done" /\ run >= 2) => (file_plan = <<>> /\ files = files0)

\* the fingerprint of the file at path p
FingerprintAt(f, p) == Blob_new(p, f).blob.id

\* C3 (deletion soundness): after a run every fingerprint of the destination
\* snapshot that the source snapshot lacks is gone from the destination, and
\* no DeleteFile removes a destination file whose fingerprint the source
\* snapshot holds.
C3_DeletionSoundness ==
    /\ pc = "done" =>
          \A k \in DOMAIN dst_map \ DOMAIN src_map :
              k \notin Fingerprints(files, dst_dir)
    /\ (pc = "executing" /\ pos <= Len(file_plan)) =>
          LET op == file_plan[pos]
          IN (op.op = "DeleteFile" /\ op.path \in Listed(files, dst_dir))
                => FingerprintAt(files, op.path) \notin DOMAIN src_map

\* C4 (ordering): in a plan of plan_file_movements a DeleteFile of a path
\* comes before every CopyFile whose dst_path is that path.
C4_DeleteBeforeCopy ==
    pc \in {"executing", "done"} =>
        \A i, j \in DOMAIN file_plan :
            (/\ file_plan[i].op = "DeleteFile"
             /\ file_plan[j].op = "CopyFile"
             /\ file_plan[i].path = file_plan[j].dst_path) => i < j

\* the number of keys of S that sort before k
RankIn(S, k) == Cardinality({o \in S : KeyLess(o, k)})

\* C5 (plan content): the plan is one CopyFile per source fingerprint the
\* destination snapshot lacks, in ascending fingerprint order, then one
\* DeleteFile per destination fingerprint the source snapshot lacks, in
\* ascending fingerprint order, and nothing else.
C5_PlanContent ==
    pc \in {"executing", "done"} =>
        LET SK == DOMAIN src_map \ DOMAIN dst_map
            DK == DOMAIN dst_map \ DOMAIN src_map
            n == Cardinality(SK)
        IN /\ Len(file_plan) = n + Cardinality(DK)
           /\ \A k \in SK :
                 file_plan[RankIn(SK, k) + 1] =
                     [op |-> "CopyFile",
                      src_path |-> src_map[k].path,
                      dst_path |-> dst_dir \o <<src_map[k].basename>>]
           /\ \A k \in DK :
                 file_plan[n + RankIn(DK, k) + 1] =
                     [op |-> "DeleteFile", path |-> dst_map[k].path]

\* a plan with two copies followed by a delete has been built
C5_Witness ==
    /\ pc = "executing"
    /\ pos = 1
    /\ Len(file_plan) >= 3
    /\ file_plan[1].op = "CopyFile"
    /\ file_plan[2].op = "CopyFile"
    /\ file_plan[Len(file_plan)].op = "DeleteFile"

\* get_struct_map for one enumeration order of list_files
SnapshotOf(order, f) == struct_to_hashmap(paths_to_blobs(order, f).blobs)

\* C6 (determinism): the plan built from the storage is the same whatever
\* order list_files enumerates the paths of either root in.
C6_Determinism ==
    pc \in {"executing", "done"} =>
        \A so \in Orders(Listed(files0, src_dir)) :
            \A do \in Orders(Listed(files0, dst_dir)) :
                plan_file_movements(dst_dir, SnapshotOf(so, files0),
                                    SnapshotOf(do, files0)) = file_plan

\* C7 (sequential execution): when execute_file_movement_plan completes, the
\* lines it appended to the operations log are the calls of the ops of the
\* plan, one per op, in plan order.
C7_LogIsPlan ==
    pc = "done" =>
        /\ Len(operations) = ops0 + Len(file_plan)
        /\ \A i \in DOMAIN file_plan :
              operations[ops0 + i] =
                  IF file_plan[i].op = "CopyFile"
                  THEN [op |-> "copy", from |-> file_plan[i].src_path,
                        to |-> file_plan[i].dst_path]
                  ELSE [op |-> "delete", path |-> file_plan[i].path]

\* a plan holding a copy and a delete has been executed to the end
C7_Witness ==
    /\ pc = "done"
    /\ \E i, j \in DOMAIN file_plan :
          file_plan[i].op = "CopyFile" /\ file_plan[j].op = "DeleteFile"
    /\ files /= files0

\* the storage after the ops of a sequence have been applied in order
RECURSIVE Applied(_, _)
Applied(f, ops) ==
    IF ops = <<>> THEN f
    ELSE LET op == Head(ops)
             g == IF op.op = "CopyFile"
                  THEN IF op.src_path \in DOMAIN f
                       THEN [q \in DOMAIN f \cup {op.dst_path} |->
                               IF q = op.dst_path THEN f[op.src_path] ELSE f[q]]
                       ELSE f
                  ELSE [q \in DOMAIN f \ {op.path} |-> f[q]]
         IN Applied(g, Tail(ops))

\* the path an op needs to be present
Needs(op) == IF op.op = "CopyFile" THEN op.src_path ELSE op.path

\* C8 (fail-fast, no rollback): when an op fails, execution has stopped at
\* that op, and the storage is what the ops before it made of the storage
\* the call was entered with.
C8_FailFast ==
    (pc = "panicked" /\ panic_msg = "{op} operation failed") =>
        /\ pos \in DOMAIN file_plan
        /\ Needs(file_plan[pos]) \notin DOMAIN files
        /\ files = Applied(files0, SubSeq(file_plan, 1, pos - 1))
        /\ Len(operations) = ops0 + pos - 1

\* the second of three ops failed after the first changed the storage, and
\* the third would have changed it
C8_Witness ==
    /\ pc = "panicked"
    /\ pos = 2
    /\ Len(file_plan) = 3
    /\ files /= files0
    /\ Applied(files, <<file_plan[3]>>) /= files

\* the number of list_files calls made so far
NumLists == Cardinality({i \in DOMAIN calls : calls[i].call.op = "list"})

\* C9 (no partial snapshot): when a listed file cannot be hashed,
\* get_struct_map returns no snapshot: the run panics and the map being
\* built is never assigned.
C9_NoPartialSnapshot ==
    (\E i \in DOMAIN paths : paths[i] \notin DOMAIN files) =>
        \/ pc \in {"src_listed", "dst_listed"}
        \/ /\ pc = "panicked"
           /\ panic_msg = "Failed to parse blobs"
           /\ dst_map = EmptyMap
           /\ NumLists % 2 = 1 => src_map = EmptyMap

\* a scan panicked although one of the listed files could still be read
C9_Witness ==
    /\ pc = "panicked"
    /\ panic_msg = "Failed to parse blobs"
    /\ \E i, j \in DOMAIN paths :
          paths[i] \notin DOMAIN files /\ paths[j] \in DOMAIN files

\* C10 (NotFound): move_file, delete_file and copy_file called with a path
\* (the source, for copy_file) that is not in the file map return NotFound
\* and leave the file map as it was.
C10_NotFound ==
    [][(/\ Len(calls') = Len(calls) + 1
        /\ LET c == calls'[Len(calls')].call
           IN \/ c.op \in {"copy", "move"} /\ c.from \notin DOMAIN files
              \/ c.op = "delete" /\ c.path \notin DOMAIN files)
          => (calls'[Len(calls')].result = "NotFound" /\ files' = files)]_vars

\* each of the three calls has failed on a storage that holds a file
C10_Witness ==
    /\ Len(calls) = 3
    /\ {calls[i].call.op : i \in DOMAIN calls} = {"copy", "move", "delete"}
    /\ \A i \in DOMAIN calls : calls[i].result = "NotFound"
    /\ files /= EmptyMap

\* the lines of a log that are not list lines
RECURSIVE MutatingLines(_)
MutatingLines(log) ==
    IF log = <<>> THEN <<>>
    ELSE IF Head(log).op = "list" THEN MutatingLines(Tail(log))
    ELSE <<Head(log)>> \o MutatingLines(Tail(log))

\* the lines of the copy, move and delete calls made, in call order
RECURSIVE MutatingCalls(_)
MutatingCalls(cs) ==
    IF cs = <<>> THEN <<>>
    ELSE IF Head(cs).call.op = "list" THEN MutatingCalls(Tail(cs))
    ELSE <<Head(cs).call>> \o MutatingCalls(Tail(cs))

\* the lines of the copy, move and delete calls that returned Ok, in call order
RECURSIVE OkMutatingCalls(_)
OkMutatingCalls(cs) ==
    IF cs = <<>> THEN <<>>
    ELSE IF Head(cs).call.op = "list" \/ Head(cs).result /= "Ok"
         THEN OkMutatingCalls(Tail(cs))
    ELSE <<Head(cs).call>> \o OkMutatingCalls(Tail(cs))

\* C11 as stated (operations log): the log holds one line for every copy_file,
\* move_file and delete_file call that was made, in call order.
C11_EveryCallLogged ==
    MutatingLines(operations) = MutatingCalls(calls)

\* C11 as amended (operations log): the log holds one line for every
\* copy_file, move_file and delete_file call that returned Ok, in call order,
\* and no line for a call that returned NotFound.
C11_OkCallsLogged ==
    MutatingLines(operations) = OkMutatingCalls(calls)

\* a failed call lies between two calls that succeeded
C11_Witness ==
    /\ Len(calls) = 3
    /\ calls[1].result = "Ok" /\ calls[1].call.op /= "list"
    /\ calls[2].result = "NotFound"
    /\ calls[3].result = "Ok" /\ calls[3].call.op /= "list"
    /\ calls[1].call /= calls[3].call

\* the fingerprints both snapshots hold
Common == DOMAIN src_map \cap DOMAIN dst_map

\* C12 (matched files are untouched): for a fingerprint in both snapshots,
\* no op of the plan deletes the destination blob's path or copies onto it,
\* and when the plan has been executed the file at that path exists with
\* the content it had.
C12_MatchedUntouched ==
    pc \in {"executing", "done"} =>
        \A k \in Common :
            LET p == dst_map[k].path
            IN /\ \A i \in DOMAIN file_plan :
                     /\ file_plan[i].op = "DeleteFile" => file_plan[i].path /= p
                     /\ file_plan[i].op = "CopyFile" => file_plan[i].dst_path /= p
               /\ pc = "done" => (p \in DOMAIN files /\ files[p] = files0[p])

\* the snapshots get_struct_map can return for a root of storage f
Snapshots(f, root) == {SnapshotOf(o, f) : o \in Orders(Listed(f, root))}

\* C13 (snapshot building is read-only): no step of get_struct_map changes
\* the file map, and when both snapshots are built each of them is a
\* snapshot of the storage as it is then, so building them in the other
\* order gives the same two snapshots.
C13_ReadOnly ==
    /\ [][(pc \in {"start", "src_listed", "src_mapped", "dst_listed"} /\ pc' /= pc)
            => files' = files]_vars
    /\ [](pc = "dst_mapped" =>
            /\ src_map \in Snapshots(files, src_dir)
            /\ dst_map \in Snapshots(files, dst_dir))

\* both snapshots are built, hold files, and differ
C13_Witness ==
    /\ pc = "dst_mapped"
    /\ src_map /= EmptyMap
    /\ dst_map /= EmptyMap
    /\ src_map /= dst_map

\* neither root is a path prefix of the other
DisjointRoots == ~starts_with(src_dir, dst_dir) /\ ~starts_with(dst_dir, src_dir)

\* C14 (the source is never modified): when neither root is a prefix of the
\* other, no op of the plan writes or deletes under the source root, and
\* every file under the source root keeps its content in every state of the
\* execution of the plan.
C14_SourceUntouched ==
    (DisjointRoots /\ pc \in {"executing", "done"}) =>
        /\ \A i \in DOMAIN file_plan :
              /\ file_plan[i].op = "CopyFile"
                    => ~starts_with(file_plan[i].dst_path, src_dir)
              /\ file_plan[i].op = "DeleteFile"
                    => ~starts_with(file_plan[i].path, src_dir)
        /\ \A p \in Listed(files0, src_dir) :
              p \in DOMAIN files /\ files[p] = files0[p]

\* a plan with a copy and a delete has run to its end beside a source that
\* holds files
C14_Witness ==
    /\ DisjointRoots
    /\ pc = "done"
    /\ Listed(files0, src_dir) /= {}
    /\ \E i, j \in DOMAIN file_plan :
          file_plan[i].op = "CopyFile" /\ file_plan[j].op = "DeleteFile"

\* C15 (a fresh plan never fails): when the plan is built from snapshots of
\* the current storage and executed with no change in between, the path each
\* op needs is present when the op is executed, no call returns NotFound and
\* the executor does not panic.
C15_FreshPlanSucceeds ==
    /\ panic_msg /= "{op} operation failed"
    /\ \A i \in DOMAIN calls : calls[i].result = "Ok"
    /\ (pc = "executing" /\ pos <= Len(file_plan))
          => Needs(file_plan[pos]) \in DOMAIN files

\* a plan that copies onto a path and then deletes that path has run to its
\* end
C15_Witness ==
    /\ pc = "done"
    /\ \E i, j \in DOMAIN file_plan :
          /\ i < j
          /\ file_plan[i].op = "CopyFile"
          /\ file_plan[j].op = "DeleteFile"
          /\ file_plan[j].path = file_plan[i].dst_path

====
